---------------------------- MODULE Spec2Model ----------------------------
(***************************************************************************)
(* A model of loopback-google-pubsub (src/pubsub.js): the registry of      *)
(* relay instances, the server-side model observers that publish change    *)
(* envelopes, and the client-side message handler that threads the actor   *)
(* identity into eventFn.                                                  *)
(*                                                                         *)
(* JavaScript values are modelled as follows.  Scalars (ids, user ids,     *)
(* field values) are strings, with Undefined and Null standing for the     *)
(* JavaScript values of those names.  Objects are records; NoObject is     *)
(* `undefined' in a slot that otherwise holds an object.                   *)
(***************************************************************************)
EXTENDS Naturals, Sequences, FiniteSets, TLC

\* ------------------------------------------------------------------ bounds
\* At most MaxRecs records of the broadcast model exist at a time.
MaxRecs == 2
\* options.filters holds at most MaxFilters entries.
MaxFilters == 2
\* The example application is driven until a customer has MaxOrders orders.
MaxOrders == 2
\* The exported function is called at most MaxCalls times.
MaxCalls == 2

\* ------------------------------------------------------------ JS values
Undefined == "undefined"
Null == "null"
NoObject == [js |-> "undefined"]

\* JavaScript truthiness of a scalar.
Truthy(v) == v \notin {Undefined, Null, "false", "", "0"}

\* JSON.parse(JSON.stringify(o)) of an object: properties whose value is
\* undefined are dropped; undefined itself stays undefined.
JSONClone(o) ==
    IF o = NoObject THEN NoObject
    ELSE [f \in {g \in DOMAIN o : o[g] # Undefined} |-> o[f]]

\* Property read o.f: undefined when the object has no such property.
Prop(o, f) == IF f \in DOMAIN o THEN o[f] ELSE Undefined
ObjProp(o, f) == IF f \in DOMAIN o THEN o[f] ELSE NoObject

\* ------------------------------------------------------------ the domain
ModelName == "Customer"
IdName == <<"1", "2", "3", "4">>
Ids == {IdName[i] : i \in 1..MaxRecs}
Statuses == {"a", "b"}
UserIds == {"u1", "u2"}
\* The ambient identities of the requests the server is driven with.
Actors == {Null, "u1"}

\* The models of the application (app.models), and a model that inherits the
\* broadcast model's observers without being one of them.
AppModels == {"Customer", "Order"}
DetachedModel == "VipCustomer"

\* A stored record of the model, as the ORM hands it out.
Rec(i, st) == [id |-> i, status |-> st]

\* The query predicates (ctx.where) of the bulk operations.
Wheres == [f : {"status"}, v : Statuses] \cup [f : {"id"}, v : Ids]
Matches(w, i, st) ==
    /\ st # "none"
    /\ IF w.f = "status" THEN st = w.v ELSE i = w.v

\* The filter entries an application may configure: a non-callable entry and
\* three functions of the record.
FilterKinds == {"notfn", "rejectK", "undefK", "throwK"}
FilterConfigs == UNION {[1..n -> FilterKinds] : n \in 0..MaxFilters}

VARIABLES
    \* server side
    store,        \* the model's table: id -> status, "none" when absent
    filters,      \* self.filters of the server relay
    accessToken,  \* userId of the access token in the ambient context, or Null
    ctx,          \* the ORM's hook context of the operation in flight
    pc,           \* where the operation in flight stands
    local,        \* the constants the running observer captured
    sent,         \* envelopes handed to self.pubsub.emit by the operation
    pend,         \* indexes of sent whose publish has not settled
    hk,           \* how the running observer signalled the hook chain
    affected,     \* ids the operation in flight concerns
    io,           \* how the query and the publishes of the operation went
    \* transport
    subs,         \* topics on which the client relay holds a subscription
    wire,         \* published messages the transport has yet to deliver
    \* client side
    eventFn,      \* which options.eventFn the client relay was configured with
    handlers,     \* the invocations of the subscription callback
    ctxVar,       \* pubsubUserId in each request-scoped context
    orders,       \* number of Order records per customerId
    \* registry
    nodeEnv,      \* process.env.NODE_ENV
    pubsubList,   \* serviceName -> the relay instance registered under it
    calls,        \* number of calls of the exported function so far
    last,         \* how the latest call of the exported function ended
    returned,     \* per serviceName, the instances calls have returned
    first,        \* per serviceName, NODE_ENV when its instance was created
    observers,    \* per instance, the observer triples registered on a model
    chains,       \* the subscription chains clientSide has started
    \* operations in flight at once
    ops,          \* per operation: its hook context, its request's user, its envelopes
    frames        \* the constants of each running observer invocation

serverVars == <<store, filters, accessToken, ctx, pc, local, sent, pend, hk, affected, io>>
transportVars == <<subs, wire>>
clientVars == <<eventFn, handlers, ctxVar, orders>>
registryVars == <<nodeEnv, pubsubList, calls, last, returned, first, observers, chains>>
flightVars == <<ops, frames>>
soloVars == <<filters, accessToken, ctx, pc, local, sent, pend, hk, affected, io>>
vars == <<serverVars, transportVars, clientVars, registryVars, flightVars>>

\* ------------------------------------------------------- filter chain
\* What a configured filter function returns for a record.
FilterCall(kind, modelName, methodName, instance, hookCtx) ==
    CASE kind = "rejectK" -> IF Prop(instance, "id") = "1" THEN "false" ELSE "true"
      [] kind = "undefK"  -> IF Prop(instance, "id") = "1" THEN Undefined ELSE "1"
      [] kind = "throwK"  -> IF Prop(instance, "id") = "1" THEN "throw" ELSE "true"

\* Array.prototype.every over self.filters from entry i on.
RECURSIVE Every(_, _, _, _, _, _)
Every(fs, i, modelName, methodName, instance, hookCtx) ==
    IF i > Len(fs) THEN "true"
    ELSE IF fs[i] = "notfn"
         THEN Every(fs, i + 1, modelName, methodName, instance, hookCtx)
         ELSE LET r == FilterCall(fs[i], modelName, methodName, instance, hookCtx)
              IN  IF r = "throw" THEN "throw"
                  ELSE IF Truthy(r)
                       THEN Every(fs, i + 1, modelName, methodName, instance, hookCtx)
                       ELSE "false"

\* shouldPublish: "true", "false", or "throw" when a filter throws.
shouldPublish(fs, modelName, methodName, instance, hookCtx) ==
    IF Len(fs) = 0 THEN "true"
    ELSE Every(fs, 1, modelName, methodName, instance, hookCtx)


\* ------------------------------------------------------------ envelopes
\* The envelope of the after-save observer (both its single-record and its
\* bulk path build the same properties).
SaveEnvelope(modelName, methodName, m, loc) ==
    [modelName |-> modelName,
     methodName |-> methodName,
     modelId |-> Prop(m, "id"),
     data |-> m,
     updateData |-> loc.updateData,
     userId |-> loc.userId,
     dataBeforeUpdate |-> loc.dataBeforeUpdate,
     orderBeforeUpdate |-> loc.dataBeforeUpdate]

\* The envelope of the before-delete observer.
DeleteEnvelope(modelName, methodName, m, loc) ==
    [modelName |-> modelName,
     methodName |-> methodName,
     modelId |-> Prop(m, "id"),
     data |-> m,
     userId |-> loc.userId]

\* The transport carries an envelope as JSON: properties that are undefined
\* are not in the message the subscriber receives.
ScalarProps == {"modelName", "methodName", "modelId", "userId"}
WireEncode(d) ==
    [f \in {g \in DOMAIN d : IF g \in ScalarProps THEN d[g] # Undefined
                                                   ELSE d[g] # NoObject} |-> d[f]]

\* A publish request: the envelope and the topic it goes to.
Emit(d, topicName) == [d |-> d, topicName |-> topicName]

\* ------------------------------------------------------------ the ORM
\* Model.find({where: w}) on the table st: the matching records, by id.
RECURSIVE FindFrom(_, _, _)
FindFrom(st, w, i) ==
    IF i > MaxRecs THEN <<>>
    ELSE (IF Matches(w, IdName[i], st[IdName[i]])
          THEN <<Rec(IdName[i], st[IdName[i]])>> ELSE <<>>)
         \o FindFrom(st, w, i + 1)
Find_IgnoresWhere(st, w) == FindFrom(st, [f |-> "status", v |-> "a"], 1)
                             \o FindFrom(st, [f |-> "status", v |-> "b"], 1)
Find(st, w) == FindFrom(st, w, 1)

MatchingIds(st, w) == {i \in Ids : Matches(w, i, st[i])}

\* models.map(f) and whether some element of a sequence satisfies a test.
SeqMap(f(_), s) == [k \in 1..Len(s) |-> f(s[k])]
RECURSIVE SeqFilter(_, _)
SeqFilter(keep(_), s) ==
    IF s = <<>> THEN <<>>
    ELSE (IF keep(Head(s)) THEN <<Head(s)>> ELSE <<>>) \o SeqFilter(keep, Tail(s))

NoHookState == [updateData |-> NoObject, dataBeforeUpdate |-> NoObject,
                orderBeforeUpdate |-> NoObject]
NoCtx == [kind |-> "none", modelName |-> ModelName, instance |-> NoObject,
          where |-> NoObject, data |-> NoObject, isNewInstance |-> FALSE,
          hookState |-> NoHookState]

\* getModelName: the name in ctx.Model.definition, undefined without one.
getModelName(c) == c.modelName
NoLocal == [methodName |-> Undefined, updateData |-> NoObject,
            dataBeforeUpdate |-> NoObject, userId |-> Null]
NoHk == [next |-> 0, err |-> FALSE, promise |-> "none", threw |-> FALSE]
NoIo == [find |-> "none", emitRejected |-> FALSE]

\* What other observers of the application may have left in ctx.hookState
\* before this relay's after-save observer runs.
AppHookStates ==
    {NoHookState,
     [NoHookState EXCEPT !.dataBeforeUpdate = [status |-> "a"]],
     [NoHookState EXCEPT !.orderBeforeUpdate = [status |-> "b"]]}

\* The hook contexts with which the ORM starts an operation on the table st:
\* Model.create, instance.updateAttributes, Model.updateAll, Model.destroyAll,
\* and bulk operations whose context names no model or names a model that is
\* not in app.models (they run on that model's own table).
Requests(st) ==
    {[NoCtx EXCEPT !.kind = "create", !.isNewInstance = TRUE,
                   !.instance = [id |-> Undefined, status |-> v]] :
        v \in {x \in Statuses : \E i \in Ids : st[i] = "none"}}
    \cup
    {[NoCtx EXCEPT !.kind = "updateAttributes", !.where = [f |-> "id", v |-> i],
                   !.data = [status |-> v], !.hookState = h] :
        i \in {j \in Ids : st[j] # "none"}, v \in Statuses, h \in AppHookStates}
    \cup
    {[NoCtx EXCEPT !.kind = "updateAll", !.where = w, !.data = [status |-> v]] :
        w \in Wheres, v \in Statuses}
    \cup
    {[NoCtx EXCEPT !.kind = "destroyAll", !.where = w] : w \in Wheres}
    \cup
    {[NoCtx EXCEPT !.kind = k, !.modelName = n,
                   !.where = [f |-> "status", v |-> "a"],
                   !.data = IF k = "updateAll" THEN [status |-> "b"] ELSE NoObject] :
        k \in {"updateAll", "destroyAll"}, n \in {Undefined, DetachedModel}}

\* a || b on two object slots.
OrElse(a, b) == IF a # NoObject THEN a ELSE b

\* The hook chain is continued by next() or failed by next(err).
CallNext(h, withErr) == [h EXCEPT !.next = @ + 1, !.err = @ \/ withErr]

\* What beforeSaveHook leaves in the hook context: a snapshot of the patch,
\* or else of the instance, in ctx.hookState.updateData.
BeforeSaveCtx(c) ==
    IF c.data # NoObject
    THEN [c EXCEPT !.hookState.updateData = JSONClone(c.data)]
    ELSE IF c.instance # NoObject
         THEN [c EXCEPT !.hookState.updateData = JSONClone(c.instance)]
         ELSE c

\* methodName of the after-save observer.
MethodName_Inverted(isNewInstance) == IF isNewInstance THEN "update" ELSE "create"
MethodName(isNewInstance) == IF isNewInstance THEN "create" ELSE "update"

\* The constants an invocation of afterSaveHook / beforeDeleteHook declares
\* before its first asynchronous call; token is the userId of the access
\* token in the context current at that moment (Null without one).
AfterSaveLocals(c, token) ==
    [methodName |-> MethodName(c.isNewInstance),
     updateData |-> c.hookState.updateData,
     dataBeforeUpdate |-> OrElse(c.hookState.dataBeforeUpdate,
                                 c.hookState.orderBeforeUpdate),
     userId |-> IF Truthy(token) THEN token ELSE Null]
BeforeDeleteLocals(token) ==
    [methodName |-> "delete",
     updateData |-> NoObject,
     dataBeforeUpdate |-> NoObject,
     userId |-> IF Truthy(token) THEN token ELSE Null]

\* What the ORM's write of operation c does to the table st when a created
\* record gets the id i: the table, the after-save context, the ids concerned.
WriteResult(st, c, i) ==
    IF c.kind = "create"
    THEN [store |-> [st EXCEPT ![i] = c.instance.status],
          ctx |-> [c EXCEPT !.instance.id = i],
          affected |-> {i}]
    ELSE IF c.kind = "updateAttributes"
    THEN [store |-> [st EXCEPT ![c.where.v] = c.data.status],
          ctx |-> [c EXCEPT !.instance = Rec(c.where.v, c.data.status),
                            !.where = NoObject, !.data = NoObject],
          affected |-> {c.where.v}]
    ELSE IF c.modelName = ModelName
    THEN [store |-> [j \in Ids |-> IF Matches(c.where, j, st[j])
                                   THEN c.data.status ELSE st[j]],
          ctx |-> c,
          affected |-> MatchingIds(st, c.where)]
    ELSE [store |-> st, ctx |-> c, affected |-> {}]

\* The table after the deletion c on the broadcast model.
DeleteResult(st, c) ==
    IF c.modelName = ModelName
    THEN [i \in Ids |-> IF Matches(c.where, i, st[i]) THEN "none" ELSE st[i]]
    ELSE st

\* ------------------------------------------------------ server: the ORM
\* The application starts an operation on the model; u is the user of the
\* access token in the ambient request context (Null outside a request).
Request(c, u) ==
    /\ pc = "idle"
    /\ c \in Requests(store)
    /\ ctx' = c
    /\ accessToken' = u
    /\ pc' = IF c.kind = "destroyAll" THEN "beforeDelete" ELSE "beforeSave"
    /\ UNCHANGED <<store, filters, local, sent, pend, hk, affected, io>>
    /\ UNCHANGED <<transportVars, clientVars, registryVars, flightVars>>

\* The ORM applies a save to the table and builds the after-save context.
Write ==
    /\ pc = "write"
    /\ \E i \in Ids :
          /\ IF ctx.kind = "create" THEN store[i] = "none" ELSE i = IdName[1]
          /\ LET r == WriteResult(store, ctx, i)
             IN  /\ store' = r.store
                 /\ ctx' = r.ctx
                 /\ affected' = r.affected
    /\ pc' = "afterSave"
    /\ hk' = NoHk
    /\ UNCHANGED <<filters, accessToken, local, sent, pend, io>>
    /\ UNCHANGED <<transportVars, clientVars, registryVars, flightVars>>

\* The operation returns to the application.  A deletion whose before-delete
\* observer did not fail the hook chain removes the matching records.
Finish ==
    /\ pc = "done"
    /\ pend = {}
    /\ store' = IF ctx.kind = "destroyAll" /\ ~hk.err /\ ~hk.threw
                THEN DeleteResult(store, ctx)
                ELSE store
    /\ pc' = "idle"
    /\ ctx' = NoCtx
    /\ accessToken' = Null
    /\ local' = NoLocal
    /\ sent' = <<>>
    /\ hk' = NoHk
    /\ affected' = {}
    /\ io' = NoIo
    /\ UNCHANGED <<filters, pend>>
    /\ UNCHANGED <<transportVars, clientVars, registryVars, flightVars>>

\* ------------------------------------------------- server: the observers
\* beforeSaveHook: snapshot the patch or the instance into ctx.hookState.
beforeSaveHook ==
    /\ pc = "beforeSave"
    /\ ctx' = BeforeSaveCtx(ctx)
    /\ hk' = CallNext(NoHk, FALSE)
    /\ pc' = "write"
    /\ UNCHANGED <<store, filters, accessToken, local, sent, pend, affected, io>>
    /\ UNCHANGED <<transportVars, clientVars, registryVars, flightVars>>

\* afterSaveHook, up to its first asynchronous call.
afterSaveHook ==
    /\ pc = "afterSave"
    /\ LET modelName == getModelName(ctx)
           topicName == modelName
           loc == AfterSaveLocals(ctx, accessToken)
           methodName == loc.methodName
           single == ctx.instance # NoObject /\ Truthy(Prop(ctx.instance, "id"))
           verdict == IF single
                      THEN shouldPublish(filters, modelName, methodName, ctx.instance, ctx)
                      ELSE "false"
       IN  /\ local' = IF Truthy(modelName) THEN loc ELSE local
           /\ IF ~Truthy(modelName)
              THEN /\ hk' = CallNext(hk, FALSE)
                   /\ pc' = "done"
                   /\ UNCHANGED <<sent, pend>>
              ELSE IF verdict = "throw"
              THEN /\ hk' = [hk EXCEPT !.threw = TRUE]
                   /\ pc' = "done"
                   /\ UNCHANGED <<sent, pend>>
              ELSE IF verdict = "true"
              THEN /\ sent' = <<Emit(SaveEnvelope(modelName, methodName,
                                                  JSONClone(ctx.instance), loc),
                                     topicName)>>
                   /\ pend' = {1}
                   /\ hk' = [hk EXCEPT !.promise = "pending"]
                   /\ pc' = "emit"
              ELSE IF ctx.where = NoObject \/ modelName \notin AppModels
              THEN /\ hk' = CallNext(hk, FALSE)
                   /\ pc' = "done"
                   /\ UNCHANGED <<sent, pend>>
              ELSE /\ pc' = "find"
                   /\ UNCHANGED <<sent, pend, hk>>
    /\ io' = [io EXCEPT !.find = IF pc' = "find" THEN "pending" ELSE @]
    /\ UNCHANGED <<store, filters, accessToken, ctx, affected>>
    /\ UNCHANGED <<transportVars, clientVars, registryVars, flightVars>>

\* beforeDeleteHook, up to its Model.find call.  Without a model name it
\* continues the chain; app.models[modelName] is not tested, so for a model
\* that is not there Model.find throws out of the observer.
beforeDeleteHook ==
    /\ pc = "beforeDelete"
    /\ LET modelName == getModelName(ctx)
           loc == BeforeDeleteLocals(accessToken)
       IN  IF ~Truthy(modelName)
           THEN /\ hk' = CallNext(NoHk, FALSE)
                /\ pc' = "done"
                /\ affected' = {}
                /\ UNCHANGED <<local, io>>
           ELSE IF modelName \notin AppModels
           THEN /\ hk' = [NoHk EXCEPT !.threw = TRUE]
                /\ pc' = "done"
                /\ local' = loc
                /\ affected' = {}
                /\ UNCHANGED io
           ELSE /\ local' = loc
                /\ affected' = MatchingIds(store, ctx.where)
                /\ hk' = NoHk
                /\ pc' = "find"
                /\ io' = [io EXCEPT !.find = "pending"]
    /\ UNCHANGED <<store, filters, accessToken, ctx, sent, pend>>
    /\ UNCHANGED <<transportVars, clientVars, registryVars, flightVars>>

\* The envelopes the .then(models => ...) callback of either observer builds
\* from the query result: filter, then map.
Envelopes(fs, kind, models, loc, hookCtx) ==
    LET keep(m) == shouldPublish(fs, ModelName, loc.methodName, m, hookCtx) = "true"
        env(m) == IF kind = "destroyAll"
                  THEN DeleteEnvelope(ModelName, loc.methodName, m, loc)
                  ELSE SaveEnvelope(ModelName, loc.methodName, m, loc)
    IN  SeqMap(env, SeqFilter(keep, SeqMap(JSONClone, models)))

\* Whether a filter throws while the query result is filtered.
FilterThrows(fs, models, loc, hookCtx) ==
    \E k \in 1..Len(models) :
        shouldPublish(fs, ModelName, loc.methodName, JSONClone(models[k]), hookCtx) = "throw"

\* Model.find resolves: the .then callbacks of afterSaveHook / beforeDeleteHook.
FindResolve ==
    /\ pc = "find"
    /\ LET models == Find(store, ctx.where)
           data == Envelopes(filters, ctx.kind, models, local, ctx)
       IN  IF Len(models) < 1
           THEN /\ hk' = CallNext(hk, FALSE)
                /\ pc' = "done"
                /\ UNCHANGED <<sent, pend>>
           ELSE IF FilterThrows(filters, models, local, ctx)
           THEN /\ hk' = CallNext(hk, TRUE)
                /\ pc' = "done"
                /\ UNCHANGED <<sent, pend>>
           ELSE IF Len(data) > 0
           THEN /\ sent' = SeqMap(LAMBDA d : Emit(d, ModelName), data)
                /\ pend' = 1..Len(data)
                /\ pc' = "emit"
                /\ UNCHANGED hk
           ELSE /\ hk' = CallNext(hk, FALSE)
                /\ pc' = "done"
                /\ UNCHANGED <<sent, pend>>
    /\ io' = [io EXCEPT !.find = "resolved"]
    /\ UNCHANGED <<store, filters, accessToken, ctx, local, affected>>
    /\ UNCHANGED <<transportVars, clientVars, registryVars, flightVars>>

\* Model.find rejects: .catch(next).
FindReject ==
    /\ pc = "find"
    /\ hk' = CallNext(hk, TRUE)
    /\ pc' = "done"
    /\ io' = [io EXCEPT !.find = "rejected"]
    /\ UNCHANGED <<store, filters, accessToken, ctx, local, sent, pend, affected>>
    /\ UNCHANGED <<transportVars, clientVars, registryVars, flightVars>>

\* How an observer whose publishes are in flight reacts to one settling: the
\* single-record path returned the publish promise itself, the bulk paths
\* wait on Promise.all(...).then(next).catch(next).
Settled(h, ok, left) ==
    IF h.promise = "pending"
    THEN [h EXCEPT !.promise = IF ok THEN "resolved" ELSE "rejected"]
    ELSE IF ~ok THEN CallNext(h, TRUE)
    ELSE IF left = {} THEN CallNext(h, FALSE)
    ELSE h

\* self.pubsub.emit resolves for the k-th envelope.
EmitResolve(k) ==
    /\ k \in pend
    /\ pend' = pend \ {k}
    /\ IF pc = "emit"
       THEN /\ hk' = Settled(hk, TRUE, pend')
            /\ pc' = IF pend' = {} THEN "done" ELSE "emit"
       ELSE UNCHANGED <<hk, pc>>
    /\ UNCHANGED <<store, filters, accessToken, ctx, local, sent, affected, io>>
    /\ wire' = IF sent[k].topicName \in subs
               THEN wire \cup {WireEncode(sent[k].d)} ELSE wire
    /\ UNCHANGED <<subs, clientVars, registryVars, flightVars>>

\* self.pubsub.emit rejects for the k-th envelope.
EmitReject(k) ==
    /\ k \in pend
    /\ pend' = pend \ {k}
    /\ IF pc = "emit"
       THEN /\ hk' = Settled(hk, FALSE, pend')
            /\ pc' = "done"
       ELSE UNCHANGED <<hk, pc>>
    /\ io' = [io EXCEPT !.emitRejected = TRUE]
    /\ UNCHANGED <<store, filters, accessToken, ctx, local, sent, affected>>
    /\ UNCHANGED <<transportVars, clientVars, registryVars, flightVars>>

\* ------------------------------------- server: operations in flight at once
\* Node runs one callback at a time; between the asynchronous calls of one
\* operation (the ORM's write, Model.find, the publishes) the callbacks of
\* another operation may run.  Each operation has its own hook context and its
\* own request context; the table and the relay's filters are shared.
Ops == {1, 2}
NoOp == [pc |-> "idle", ctx |-> NoCtx, token |-> Null, sent |-> <<>>, hk |-> NoHk]

\* Where the constants of the observer invocation of operation o live: they
\* are declared inside the function the observer is, one set per invocation.
LocalOf_Shared(o) == 1
LocalOf(o) == o

\* The user of the request that starts operation o.
Requesters(o) == IF o = 1 THEN {"u1"} ELSE {"u2", Null}

\* The operations run side by side: the first one is a bulk update or a
\* deletion, the second one a create or a bulk update, all on the broadcast
\* model and by a predicate on the status.
FlightRequests(st, o) ==
    {c \in Requests(st) :
        /\ c.modelName = ModelName
        /\ c.kind \in (IF o = 1 THEN {"updateAll", "destroyAll"}
                                 ELSE {"create", "updateAll"})
        /\ c.where # NoObject => c.where.f = "status"}

FlightsAtRest ==
    /\ ops = [o \in Ops |-> NoOp]
    /\ frames = [o \in Ops |-> NoLocal]

\* A request of user u starts operation o.
OpRequest(o, c, u) ==
    /\ ops[o].pc = "idle"
    /\ c \in Requests(store)
    /\ ops' = [ops EXCEPT ![o] =
                 [NoOp EXCEPT !.ctx = c, !.token = u,
                              !.pc = IF c.kind = "destroyAll"
                                     THEN "beforeDelete" ELSE "beforeSave"]]
    /\ UNCHANGED <<store, frames, soloVars, transportVars, clientVars, registryVars>>

\* beforeSaveHook of operation o.
OpBeforeSave(o) ==
    /\ ops[o].pc = "beforeSave"
    /\ ops' = [ops EXCEPT ![o].ctx = BeforeSaveCtx(@),
                          ![o].hk = CallNext(NoHk, FALSE),
                          ![o].pc = "write"]
    /\ UNCHANGED <<store, frames, soloVars, transportVars, clientVars, registryVars>>

\* The ORM's write of operation o.
OpWrite(o) ==
    /\ ops[o].pc = "write"
    /\ \E i \in Ids :
          /\ IF ops[o].ctx.kind = "create" THEN store[i] = "none" ELSE i = IdName[1]
          /\ LET r == WriteResult(store, ops[o].ctx, i)
             IN  /\ store' = r.store
                 /\ ops' = [ops EXCEPT ![o].ctx = r.ctx, ![o].hk = NoHk,
                                       ![o].pc = "afterSave"]
    /\ UNCHANGED <<frames, soloVars, transportVars, clientVars, registryVars>>

\* afterSaveHook of operation o, up to its first asynchronous call; the
\* context current in its flow is that of its own request.
OpAfterSave(o) ==
    /\ ops[o].pc = "afterSave"
    /\ LET c == ops[o].ctx
           modelName == getModelName(c)
           loc == AfterSaveLocals(c, ops[o].token)
           single == c.instance # NoObject /\ Truthy(Prop(c.instance, "id"))
           verdict == IF single
                      THEN shouldPublish(filters, modelName, loc.methodName, c.instance, c)
                      ELSE "false"
       IN  /\ frames' = IF Truthy(modelName)
                        THEN [frames EXCEPT ![LocalOf(o)] = loc] ELSE frames
           /\ ops' = [ops EXCEPT ![o] =
                 IF ~Truthy(modelName)
                 THEN [@ EXCEPT !.hk = CallNext(ops[o].hk, FALSE), !.pc = "done"]
                 ELSE IF verdict = "throw"
                 THEN [@ EXCEPT !.hk = [ops[o].hk EXCEPT !.threw = TRUE], !.pc = "done"]
                 ELSE IF verdict = "true"
                 THEN [@ EXCEPT !.sent = <<Emit(SaveEnvelope(modelName, loc.methodName,
                                                             JSONClone(c.instance), loc),
                                                modelName)>>,
                                !.hk = [ops[o].hk EXCEPT !.promise = "pending"],
                                !.pc = "emit"]
                 ELSE IF c.where = NoObject \/ modelName \notin AppModels
                 THEN [@ EXCEPT !.hk = CallNext(ops[o].hk, FALSE), !.pc = "done"]
                 ELSE [@ EXCEPT !.pc = "find"]]
    /\ UNCHANGED <<store, soloVars, transportVars, clientVars, registryVars>>

\* beforeDeleteHook of operation o, up to its Model.find call.
OpBeforeDelete(o) ==
    /\ ops[o].pc = "beforeDelete"
    /\ LET modelName == getModelName(ops[o].ctx)
           loc == BeforeDeleteLocals(ops[o].token)
       IN  /\ frames' = IF Truthy(modelName)
                        THEN [frames EXCEPT ![LocalOf(o)] = loc] ELSE frames
           /\ ops' = [ops EXCEPT ![o] =
                 IF ~Truthy(modelName)
                 THEN [@ EXCEPT !.hk = CallNext(NoHk, FALSE), !.pc = "done"]
                 ELSE IF modelName \notin AppModels
                 THEN [@ EXCEPT !.hk = [NoHk EXCEPT !.threw = TRUE], !.pc = "done"]
                 ELSE [@ EXCEPT !.hk = NoHk, !.pc = "find"]]
    /\ UNCHANGED <<store, soloVars, transportVars, clientVars, registryVars>>

\* Model.find of operation o resolves: the envelopes are built from the
\* constants of this invocation and handed to the transport.
OpFindResolve(o) ==
    /\ ops[o].pc = "find"
    /\ LET c == ops[o].ctx
           loc == frames[LocalOf(o)]
           models == Find(store, c.where)
           data == Envelopes(filters, c.kind, models, loc, c)
       IN  ops' = [ops EXCEPT ![o] =
               IF Len(models) < 1
               THEN [@ EXCEPT !.hk = CallNext(ops[o].hk, FALSE), !.pc = "done"]
               ELSE IF FilterThrows(filters, models, loc, c)
               THEN [@ EXCEPT !.hk = CallNext(ops[o].hk, TRUE), !.pc = "done"]
               ELSE IF Len(data) > 0
               THEN [@ EXCEPT !.sent = SeqMap(LAMBDA d : Emit(d, ModelName), data),
                              !.pc = "emit"]
               ELSE [@ EXCEPT !.hk = CallNext(ops[o].hk, FALSE), !.pc = "done"]]
    /\ UNCHANGED <<store, frames, soloVars, transportVars, clientVars, registryVars>>

\* Model.find of operation o rejects.
OpFindReject(o) ==
    /\ ops[o].pc = "find"
    /\ ops' = [ops EXCEPT ![o].hk = CallNext(@, TRUE), ![o].pc = "done"]
    /\ UNCHANGED <<store, frames, soloVars, transportVars, clientVars, registryVars>>

\* The publishes of operation o settle: all resolved, or one rejected.
OpPublishSettle(o, ok) ==
    /\ ops[o].pc = "emit"
    /\ ops' = [ops EXCEPT ![o].hk = Settled(@, ok, {}), ![o].pc = "done"]
    /\ UNCHANGED <<store, frames, soloVars, transportVars, clientVars, registryVars>>

\* Operation o returns to the application; a deletion whose observer did not
\* fail the hook chain removes the matching records.
OpFinish(o) ==
    /\ ops[o].pc = "done"
    /\ store' = IF /\ ops[o].ctx.kind = "destroyAll"
                   /\ ~ops[o].hk.err /\ ~ops[o].hk.threw
                THEN DeleteResult(store, ops[o].ctx)
                ELSE store
    /\ ops' = [ops EXCEPT ![o] = NoOp]
    /\ frames' = [frames EXCEPT ![LocalOf(o)] = NoLocal]
    /\ UNCHANGED <<soloVars, transportVars, clientVars, registryVars>>

\* ------------------------------------------------ client: the callback
Handlers == {"h1", "h2"}
Contexts == {"c1", "c2"}
NoContext == "none"
NoHandler == [d |-> NoObject, step |-> "idle", cx |-> NoContext,
              args |-> <<>>, seen |-> Undefined]

\* How a call of options.eventFn may end: it returns a value, it throws, or
\* it returns a promise that settles later.
Outcomes == {"returned", "threw", "promise"}

\* The transport invokes the subscription callback with the decoded message d;
\* cx is the request-scoped context current in that flow, if there is one.
\* The callback starts its promise chain.
Deliver(h, d, cx) ==
    /\ handlers[h].step = "idle"
    /\ d # NoObject
    /\ handlers' = [handlers EXCEPT ![h] = [NoHandler EXCEPT !.d = d, !.cx = cx,
                                                            !.step = "set"]]
    /\ UNCHANGED <<serverVars, subs, eventFn, ctxVar, orders, registryVars, flightVars>>

\* setPubsubUserId.  getContext assigns to a const when there is no current
\* context, which throws; either way the chain is rejected.
setPubsubUserId(h) ==
    LET hd == handlers[h]
        pubsubUserId == Prop(hd.d, "userId")
    IN  /\ hd.step = "set"
        /\ IF \/ hd.cx = NoContext
              \/ Truthy(ctxVar[hd.cx])
              \/ ~Truthy(pubsubUserId)
           THEN /\ handlers' = [handlers EXCEPT ![h].step = "rejected"]
                /\ UNCHANGED ctxVar
           ELSE /\ ctxVar' = [ctxVar EXCEPT ![hd.cx] = pubsubUserId]
                /\ handlers' = [handlers EXCEPT ![h].step = "trigger"]
        /\ UNCHANGED <<serverVars, transportVars, eventFn, orders, registryVars, flightVars>>

\* The arguments triggerEvent passes to options.eventFn.
EventArgs(d) ==
    <<Prop(d, "modelName"), Prop(d, "methodName"), Prop(d, "modelId"),
      ObjProp(d, "data"), ObjProp(d, "updateData"), Prop(d, "userId"),
      ObjProp(d, "dataBeforeUpdate")>>

\* triggerEvent: options.eventFn is called and ends in one of Outcomes.  The
\* example application's eventFn creates an Order for the modelId it gets and
\* returns.
triggerEvent(h, outcome) ==
    LET hd == handlers[h]
        modelId == Prop(hd.d, "modelId")
    IN  /\ hd.step = "trigger"
        /\ eventFn = "order" => outcome = "returned"
        /\ handlers' = [handlers EXCEPT
                ![h].args = EventArgs(hd.d),
                ![h].seen = ctxVar[hd.cx],
                ![h].step = CASE outcome = "returned" -> "unset"
                              [] outcome = "threw" -> "rejected"
                              [] outcome = "promise" -> "running"]
        /\ orders' = IF eventFn = "order" /\ modelId \in Ids
                     THEN [orders EXCEPT ![modelId] = @ + 1]
                     ELSE orders
        /\ UNCHANGED <<serverVars, transportVars, eventFn, ctxVar, registryVars, flightVars>>

\* The promise options.eventFn returned settles.
EventFnSettle(h, ok) ==
    /\ handlers[h].step = "running"
    /\ handlers' = [handlers EXCEPT ![h].step = IF ok THEN "unset" ELSE "rejected"]
    /\ UNCHANGED <<serverVars, transportVars, eventFn, ctxVar, orders, registryVars, flightVars>>

\* unsetPubsubUserId: reached only when triggerEvent's promise resolved.
unsetPubsubUserId(h) ==
    LET hd == handlers[h]
    IN  /\ hd.step = "unset"
        /\ IF hd.cx = NoContext
           THEN /\ handlers' = [handlers EXCEPT ![h].step = "rejected"]
                /\ UNCHANGED ctxVar
           ELSE /\ ctxVar' = [ctxVar EXCEPT ![hd.cx] = Null]
                /\ handlers' = [handlers EXCEPT ![h].step = "resolved"]
        /\ UNCHANGED <<serverVars, transportVars, eventFn, orders, registryVars, flightVars>>

\* The settled promise of a callback invocation is dropped.
Reap(h) ==
    /\ handlers[h].step \in {"resolved", "rejected"}
    /\ handlers' = [handlers EXCEPT ![h] = NoHandler]
    /\ UNCHANGED <<serverVars, transportVars, eventFn, ctxVar, orders, registryVars, flightVars>>

\* A request-scoped context ends once no callback invocation runs in it; the
\* next flow that gets this slot starts with a context of its own.
ContextEnds(c) ==
    /\ ctxVar[c] # Null
    /\ \A h \in Handlers : handlers[h].cx # c
    /\ ctxVar' = [ctxVar EXCEPT ![c] = Null]
    /\ UNCHANGED <<serverVars, transportVars, eventFn, handlers, orders, registryVars, flightVars>>

\* ------------------------------------------------------------ registry
ServiceNames == {"svc-a", "svc-b"}
Environments == {"dev", "prod"}

NoFilters == [kind |-> "undefined"]
NoInstance == [ref |-> 0]
\* A fresh object, as allocated by the literal {} of the exported function.
NewObject(r) ==
    [ref |-> r, serviceName |-> Undefined, env |-> Undefined, type |-> Undefined,
     filters |-> NoFilters, pubsub |-> Undefined]

\* The options of a lookup: a serviceName and nothing else.
Lookup(n) ==
    [serviceName |-> n, type |-> Undefined, projectId |-> Undefined,
     modelsToBroadcast |-> <<>>, modelsToSubscribe |-> <<>>,
     eventFn |-> FALSE, filters |-> NoFilters, done |-> FALSE]

\* A complete server configuration and a complete client configuration.
ServerOptions(n) ==
    [Lookup(n) EXCEPT !.type = "server", !.projectId = "p1",
                      !.modelsToBroadcast = <<"Customer">>]
ClientOptions(n) ==
    [Lookup(n) EXCEPT !.type = "client", !.projectId = "p1", !.eventFn = TRUE,
                      !.done = TRUE, !.modelsToSubscribe = <<"Customer">>]

\* The calls made for one serviceName: a lookup, server and client
\* configurations, complete or with one required option missing or malformed,
\* and a type that is neither.  An absent model list and an empty one are both
\* <<>>: the code tests them together.
OptionsFor(n) ==
    {Lookup(n),
     [Lookup(n) EXCEPT !.type = "bogus", !.projectId = "p1"],
     ServerOptions(n),
     [ServerOptions(n) EXCEPT !.filters = [kind |-> "object"]],
     [ServerOptions(n) EXCEPT !.filters = [kind |-> "array", fns |-> <<"rejectK">>]],
     [ServerOptions(n) EXCEPT !.projectId = Undefined],
     [ServerOptions(n) EXCEPT !.modelsToBroadcast = <<>>],
     ClientOptions(n),
     [ClientOptions(n) EXCEPT !.modelsToSubscribe = <<"Customer", "Order">>],
     [ClientOptions(n) EXCEPT !.projectId = Undefined],
     [ClientOptions(n) EXCEPT !.modelsToSubscribe = <<>>],
     [ClientOptions(n) EXCEPT !.eventFn = FALSE]}

\* The options the exported function is called with: every call for one
\* serviceName, the plain calls for a second one, and a call without a
\* serviceName.
RegistryOptions ==
    OptionsFor("svc-a")
    \cup {Lookup("svc-b"), ServerOptions("svc-b"), ClientOptions("svc-b")}
    \cup {Lookup(Undefined)}

\* if (!self.x) self.x = v
SetAlways(cur, v) == v
SetOnce(cur, v) == IF Truthy(cur) THEN cur ELSE v

\* The statements of Pubsub(app, options) that configure self, in order; each
\* step yields the object as it stands and whether the constructor threw
\* there.  PubSub.init(options.projectId) is the handle of that project.
PubsubConfigure(self, options, env) ==
    LET s1 == [self EXCEPT !.pubsub = options.projectId]
        s2 == [s1 EXCEPT !.serviceName = SetOnce(@, options.serviceName)]
        s3 == [s2 EXCEPT !.env = SetOnce(@, env)]
        s4 == IF options.filters # NoFilters /\ s3.filters = NoFilters
              THEN [s3 EXCEPT !.filters = options.filters] ELSE s3
        s5 == [s4 EXCEPT !.type = SetOnce(@, options.type)]
    IN  IF ~Truthy(options.serviceName) THEN [self |-> s1, threw |-> TRUE]
        ELSE IF ~Truthy(env) THEN [self |-> s2, threw |-> TRUE]
        ELSE IF /\ options.filters # NoFilters /\ s3.filters = NoFilters
                /\ options.filters.kind # "array" THEN [self |-> s3, threw |-> TRUE]
        ELSE IF options.type \notin {"client", "server"} /\ Truthy(options.type)
             THEN [self |-> s5, threw |-> TRUE]
        ELSE [self |-> s5, threw |-> FALSE]

\* serverSide: whether its checks throw, and the number of models of
\* modelsToBroadcast on which it registers its three observers.
ServerSideThrows(options) ==
    ~Truthy(options.projectId) \/ Len(options.modelsToBroadcast) < 1
ServerSideModels(options) ==
    Cardinality({k \in 1..Len(options.modelsToBroadcast) :
                    options.modelsToBroadcast[k] \in AppModels})

\* clientSide: whether it returns a rejected promise without subscribing.
ClientSideRejects(options) ==
    \/ ~Truthy(options.projectId)
    \/ Len(options.modelsToSubscribe) < 1
    \/ ~options.eventFn

\* A subscription chain of clientSide: the models in order, the number k of
\* subscribe requests that completed, the number issued so far.
NoChain == [self |-> 0, models |-> <<>>, k |-> 0, issued |-> 0, state |-> "none",
            done |-> FALSE, doneCalls |-> 0]

\* The number of subscribe requests the reduce chain has issued once k of them
\* completed and the next one failed or not: each one is issued from the
\* .then of the one before it.
SubscribesIssued_AllAtOnce(models, k, failed) == Len(models)
SubscribesIssued(models, k, failed) ==
    IF ~failed /\ k = Len(models) THEN k ELSE k + 1

\* Whether the exported function calls Pubsub: for a name that is not
\* registered, and for a registered one when options.type is given.
Runs_Always(known, options) == TRUE
Runs(known, options) == ~known \/ Truthy(options.type)

\* Which instance the exported function hands to Pubsub: a fresh object when
\* the name is not registered, the registered instance otherwise.
Target(list, name, r) ==
    IF name \in DOMAIN list /\ list[name] # NoInstance THEN list[name] ELSE NewObject(r)

\* module.exports(app, options): the whole call, Pubsub included.
Require(options) ==
    LET name == options.serviceName
        known == name \in DOMAIN pubsubList /\ pubsubList[name] # NoInstance
        runs == Runs(known, options)
        cfg == PubsubConfigure(Target(pubsubList, name, calls + 1), options, nodeEnv)
        threw == runs /\ (cfg.threw \/ (options.type = "server" /\ ServerSideThrows(options)))
        self == IF runs THEN cfg.self ELSE pubsubList[name]
    IN  /\ calls < MaxCalls
        /\ calls' = calls + 1
        /\ pubsubList' = IF known \/ (runs /\ ~threw)
                         THEN [pubsubList EXCEPT ![name] = self]
                         ELSE pubsubList
        /\ last' = [name |-> name, typed |-> Truthy(options.type),
                    result |-> IF threw THEN "threw" ELSE "returned",
                    ref |-> IF threw THEN 0 ELSE self.ref,
                    opts |-> options,
                    error |-> \/ threw
                              \/ /\ runs /\ options.type = "client"
                                 /\ ClientSideRejects(options)]
        /\ returned' = IF threw THEN returned
                       ELSE [returned EXCEPT ![name] = @ \cup {self.ref}]
        /\ first' = IF ~threw /\ ~known THEN [first EXCEPT ![name] = nodeEnv] ELSE first
        /\ observers' = IF runs /\ ~cfg.threw /\ options.type = "server"
                           /\ ~ServerSideThrows(options)
                        THEN [observers EXCEPT ![self.ref] = @ + ServerSideModels(options)]
                        ELSE observers
        /\ chains' = IF runs /\ ~cfg.threw /\ options.type = "client"
                     THEN [chains EXCEPT ![calls + 1] =
                             [self |-> self.ref,
                              models |-> options.modelsToSubscribe, k |-> 0,
                              issued |-> IF ClientSideRejects(options) THEN 0
                                         ELSE SubscribesIssued(options.modelsToSubscribe,
                                                               0, FALSE),
                              state |-> IF ClientSideRejects(options)
                                        THEN "failed" ELSE "running",
                              done |-> options.done, doneCalls |-> 0]]
                     ELSE chains
        /\ UNCHANGED <<serverVars, transportVars, clientVars, nodeEnv, flightVars>>

\* self.pubsub.subscribe for the next model of a chain settles.  When the
\* last one resolves, the promise of clientSide resolves and options.done,
\* when given, is called.
SubscribeSettles(c, ok) ==
    /\ chains[c].state = "running"
    /\ LET ch == chains[c]
           nxt == IF ~ok
                  THEN [ch EXCEPT !.state = "failed",
                                  !.issued = SubscribesIssued(ch.models, ch.k, TRUE)]
                  ELSE IF ch.k + 1 = Len(ch.models)
                       THEN [ch EXCEPT !.k = ch.k + 1, !.state = "done",
                                       !.issued = SubscribesIssued(ch.models, ch.k + 1, FALSE),
                                       !.doneCalls = IF ch.done THEN @ + 1 ELSE @]
                       ELSE [ch EXCEPT !.k = ch.k + 1,
                                       !.issued = SubscribesIssued(ch.models, ch.k + 1, FALSE)]
       IN  chains' = [chains EXCEPT ![c] = nxt]
    /\ UNCHANGED <<serverVars, transportVars, clientVars, nodeEnv, pubsubList,
                   calls, last, returned, first, observers, flightVars>>

\* The process environment is changed (or NODE_ENV is unset) between calls.
SetEnv(e) ==
    /\ calls < MaxCalls
    /\ nodeEnv # e
    /\ nodeEnv' = e
    /\ UNCHANGED <<serverVars, transportVars, clientVars, pubsubList, calls, last,
                   returned, first, observers, chains, flightVars>>

\* No call of the exported function is modelled.
RegistryAtRest ==
    /\ nodeEnv = "dev"
    /\ pubsubList = [n \in ServiceNames |-> NoInstance]
    /\ calls = 0
    /\ last = [name |-> Undefined, typed |-> FALSE, result |-> "none", ref |-> 0,
               opts |-> Lookup(Undefined), error |-> FALSE]
    /\ returned = [n \in ServiceNames |-> {}]
    /\ first = [n \in ServiceNames |-> Undefined]
    /\ observers = [r \in 1..MaxCalls |-> 0]
    /\ chains = [r \in 1..MaxCalls |-> NoChain]

\* ------------------------------------------------------ specifications
\* The server relay after serverSide registered its observers on the model:
\* an empty table, any filter configuration, no operation in flight.
InitServer ==
    /\ store = [i \in Ids |-> "none"]
    /\ filters \in FilterConfigs
    /\ accessToken = Null
    /\ ctx = NoCtx
    /\ pc = "idle"
    /\ local = NoLocal
    /\ sent = <<>>
    /\ pend = {}
    /\ hk = NoHk
    /\ affected = {}
    /\ io = NoIo
    /\ subs = {}
    /\ wire = {}
    /\ eventFn = "any"
    /\ handlers = [h \in Handlers |-> NoHandler]
    /\ ctxVar = [c \in Contexts |-> Null]
    /\ orders = [i \in Ids |-> 0]
    /\ RegistryAtRest
    /\ FlightsAtRest

NextServer ==
    \/ \E c \in Requests(store), u \in Actors : Request(c, u)
    \/ beforeSaveHook
    \/ Write
    \/ afterSaveHook
    \/ beforeDeleteHook
    \/ FindResolve
    \/ FindReject
    \/ \E k \in pend : EmitResolve(k)
    \/ \E k \in pend : EmitReject(k)
    \/ Finish

SpecServer == InitServer /\ [][NextServer]_vars

\* Messages a subscription on the model's topic may deliver: envelopes of
\* this model published inside and outside a request, an envelope that names
\* another model, and one whose record carried no id.
Inbox ==
    LET loc(u) == [methodName |-> "create", updateData |-> [status |-> "a"],
                   dataBeforeUpdate |-> NoObject, userId |-> u]
    IN  {WireEncode(SaveEnvelope(ModelName, "create", Rec("1", "a"), loc(u))) :
            u \in UserIds \cup {Null}}
        \cup {WireEncode(SaveEnvelope("Order", "create", Rec("1", "a"), loc("u1"))),
              WireEncode(SaveEnvelope(ModelName, "update", [status |-> "a"], loc("u1")))}

\* The client relay after clientSide subscribed to the model's topic, with an
\* arbitrary application callback as eventFn.
InitClient ==
    /\ store = [i \in Ids |-> "none"]
    /\ filters = <<>>
    /\ accessToken = Null
    /\ ctx = NoCtx
    /\ pc = "idle"
    /\ local = NoLocal
    /\ sent = <<>>
    /\ pend = {}
    /\ hk = NoHk
    /\ affected = {}
    /\ io = NoIo
    /\ subs = {ModelName}
    /\ wire = {}
    /\ eventFn = "any"
    /\ handlers = [h \in Handlers |-> NoHandler]
    /\ ctxVar = [c \in Contexts |-> Null]
    /\ orders = [i \in Ids |-> 0]
    /\ RegistryAtRest
    /\ FlightsAtRest

NextClient ==
    \/ \E h \in Handlers, d \in Inbox, cx \in Contexts \cup {NoContext} :
          Deliver(h, d, cx) /\ UNCHANGED wire
    \/ \E h \in Handlers : setPubsubUserId(h)
    \/ \E h \in Handlers, o \in Outcomes : triggerEvent(h, o)
    \/ \E h \in Handlers, ok \in BOOLEAN : EventFnSettle(h, ok)
    \/ \E h \in Handlers : unsetPubsubUserId(h)
    \/ \E h \in Handlers : Reap(h)
    \/ \E c \in Contexts : ContextEnds(c)

SpecClient == InitClient /\ [][NextClient]_vars

\* A process that has just loaded the module: nothing is registered, NODE_ENV
\* is set or not.
InitRegistry ==
    /\ store = [i \in Ids |-> "none"]
    /\ filters = <<>>
    /\ accessToken = Null
    /\ ctx = NoCtx
    /\ pc = "idle"
    /\ local = NoLocal
    /\ sent = <<>>
    /\ pend = {}
    /\ hk = NoHk
    /\ affected = {}
    /\ io = NoIo
    /\ subs = {}
    /\ wire = {}
    /\ eventFn = "any"
    /\ handlers = [h \in Handlers |-> NoHandler]
    /\ ctxVar = [c \in Contexts |-> Null]
    /\ orders = [i \in Ids |-> 0]
    /\ nodeEnv \in Environments \cup {Undefined}
    /\ pubsubList = [n \in ServiceNames |-> NoInstance]
    /\ calls = 0
    /\ last = [name |-> Undefined, typed |-> FALSE, result |-> "none", ref |-> 0,
               opts |-> Lookup(Undefined), error |-> FALSE]
    /\ returned = [n \in ServiceNames |-> {}]
    /\ first = [n \in ServiceNames |-> Undefined]
    /\ observers = [r \in 1..MaxCalls |-> 0]
    /\ chains = [r \in 1..MaxCalls |-> NoChain]
    /\ FlightsAtRest

NextRegistry ==
    \/ \E o \in RegistryOptions : Require(o)
    \/ \E c \in 1..MaxCalls, ok \in BOOLEAN : SubscribeSettles(c, ok)
    \/ \E e \in Environments \cup {Undefined} : SetEnv(e)

SpecRegistry == InitRegistry /\ [][NextRegistry]_vars

\* The example application (startPubsub): a server relay broadcasting the
\* model and a client relay subscribed to it in one process, no filters, and
\* an eventFn that creates an Order for the modelId it is called with.
InitRelay ==
    /\ store = [i \in Ids |-> "none"]
    /\ filters = <<>>
    /\ accessToken = Null
    /\ ctx = NoCtx
    /\ pc = "idle"
    /\ local = NoLocal
    /\ sent = <<>>
    /\ pend = {}
    /\ hk = NoHk
    /\ affected = {}
    /\ io = NoIo
    /\ subs = {ModelName}
    /\ wire = {}
    /\ eventFn = "order"
    /\ handlers = [h \in Handlers |-> NoHandler]
    /\ ctxVar = [c \in Contexts |-> Null]
    /\ orders = [i \in Ids |-> 0]
    /\ RegistryAtRest
    /\ FlightsAtRest

\* The application saves records (it never deletes), one operation at a time,
\* and starts the next one once the messages of the last one are handled.
\* The transport delivers each published message once, to one callback
\* invocation at a time.
NextRelay ==
    \/ \E c \in Requests(store), u \in Actors :
          /\ c.kind # "destroyAll"
          /\ wire = {}
          /\ \A h \in Handlers : handlers[h].step = "idle"
          /\ \A i \in Ids : orders[i] < MaxOrders
          /\ Request(c, u)
    \/ beforeSaveHook
    \/ Write
    \/ afterSaveHook
    \/ FindResolve
    \/ FindReject
    \/ \E k \in pend : EmitResolve(k)
    \/ \E k \in pend : EmitReject(k)
    \/ Finish
    \/ \E d \in wire, cx \in {"c1", NoContext} :
          Deliver("h1", d, cx) /\ wire' = wire \ {d}
    \/ setPubsubUserId("h1")
    \/ triggerEvent("h1", "returned")
    \/ unsetPubsubUserId("h1")
    \/ Reap("h1")

SpecRelay == InitRelay /\ [][NextRelay]_vars

\* The server relay, without filters, with two operations of different users
\* in flight at once.
InitFlights ==
    /\ store = [i \in Ids |-> "none"]
    /\ filters = <<>>
    /\ accessToken = Null
    /\ ctx = NoCtx
    /\ pc = "idle"
    /\ local = NoLocal
    /\ sent = <<>>
    /\ pend = {}
    /\ hk = NoHk
    /\ affected = {}
    /\ io = NoIo
    /\ subs = {}
    /\ wire = {}
    /\ eventFn = "any"
    /\ handlers = [h \in Handlers |-> NoHandler]
    /\ ctxVar = [c \in Contexts |-> Null]
    /\ orders = [i \in Ids |-> 0]
    /\ RegistryAtRest
    /\ FlightsAtRest

NextFlights ==
    \/ \E o \in Ops : \E c \in FlightRequests(store, o), u \in Requesters(o) : OpRequest(o, c, u)
    \/ \E o \in Ops : OpBeforeSave(o)
    \/ \E o \in Ops : OpWrite(o)
    \/ \E o \in Ops : OpAfterSave(o)
    \/ \E o \in Ops : OpBeforeDelete(o)
    \/ \E o \in Ops : OpFindResolve(o)
    \/ \E o \in Ops : OpFindReject(o)
    \/ \E o \in Ops, ok \in BOOLEAN : OpPublishSettle(o, ok)
    \/ \E o \in Ops : OpFinish(o)

SpecFlights == InitFlights /\ [][NextFlights]_vars

\* ------------------------------------------------------------- claims
\* C1: any two calls of the registry that name the same serviceName and
\* return normally return the same instance, and that instance's serviceName
\* and environment are those of the call that created it, whatever calls
\* follow and whatever NODE_ENV has become since.
C1_SameInstance ==
    /\ \A n \in ServiceNames :
          /\ Cardinality(returned[n]) <= 1
          /\ pubsubList[n] # NoInstance
             => /\ pubsubList[n].serviceName = n
                /\ pubsubList[n].env = first[n]
                /\ returned[n] = {pubsubList[n].ref}
    /\ (last.result = "returned" /\ last.name \in ServiceNames)
       => last.ref = pubsubList[last.name].ref

\* C1 witness: a configuring call on an already registered serviceName has
\* returned normally after NODE_ENV changed from what it was when the
\* instance was created.
C1_Witness ==
    /\ last.result = "returned"
    /\ last.typed
    /\ last.name \in ServiceNames
    /\ calls = 2
    /\ first[last.name] # nodeEnv
    /\ pubsubList[last.name].ref = 1

\* The operation in flight saved a single record (create or update of one
\* instance) and its after-save observer has run.
SingleSaved == pc \in {"emit", "done"} /\ ctx.kind \in {"create", "updateAttributes"}

\* Ids of the envelopes handed to the transport by the operation in flight.
SentIds == {sent[k].d.modelId : k \in 1..Len(sent)}

\* C3: on a server relay, a create or update of a single record with a
\* non-empty identifier that the filter chain accepts hands exactly one
\* envelope to the transport, on the model's topic, with methodName "create"
\* for a new record and "update" otherwise, and modelId the record's id.
C3_SingleRecordOneEnvelope ==
    (/\ SingleSaved
     /\ shouldPublish(filters, ModelName, local.methodName, ctx.instance, ctx) = "true")
    => /\ Len(sent) = 1
       /\ sent[1].topicName = ModelName
       /\ sent[1].d.modelName = ModelName
       /\ sent[1].d.methodName = (IF ctx.kind = "create" THEN "create" ELSE "update")
       /\ affected = {sent[1].d.modelId}

\* C3 witness: an update of one existing record passed a non-empty filter
\* chain and produced its one "update" envelope.
C3_Witness ==
    /\ pc = "done"
    /\ ctx.kind = "updateAttributes"
    /\ filters # <<>>
    /\ Len(sent) = 1
    /\ sent[1].d.methodName = "update"
    /\ hk.promise = "resolved"

\* C4 (as claimed): a bulk update whose query and publishes did not fail
\* hands the transport one envelope per record it matched that the filter
\* chain accepts, whatever the patch.
C4_BulkUpdateOnePerMatched ==
    (/\ ctx.kind = "updateAll"
     /\ pc = "done"
     /\ io.find = "resolved"
     /\ ~hk.err)
    => LET accepted == {i \in affected :
                          shouldPublish(filters, ModelName, "update",
                                        Rec(i, store[i]), ctx) = "true"}
       IN  /\ Len(sent) = Cardinality(accepted)
           /\ SentIds = accepted

\* C5: a deletion whose query resolves with zero records hands nothing to the
\* transport and continues the hook chain once, without an error.
C5_DeleteNothing ==
    (/\ ctx.kind = "destroyAll"
     /\ pc = "done"
     /\ io.find = "resolved"
     /\ affected = {})
    => /\ sent = <<>>
       /\ hk.next = 1
       /\ ~hk.err
       /\ ~hk.threw
       /\ hk.promise = "none"

\* C5 witness: a deletion on a non-empty table whose predicate matched no
\* record has completed.
C5_Witness ==
    /\ ctx.kind = "destroyAll"
    /\ pc = "done"
    /\ io.find = "resolved"
    /\ affected = {}
    /\ \E i \in Ids : store[i] # "none"
    /\ hk.next = 1

\* Every filter entry is non-callable, throws, or returns true for record m.
OnlyBadOrTrue(fs, methodName, m, hookCtx) ==
    \A k \in 1..Len(fs) :
        \/ fs[k] = "notfn"
        \/ FilterCall(fs[k], ModelName, methodName, m, hookCtx) \in {"true", "throw"}

\* C7 (as claimed): a filter entry that throws or is not callable is treated
\* as passing, in the single-record path and in the bulk (delete) path: when
\* every other entry returns true and no publish failed, the record is
\* published and the hook chain is not failed.
C7_BadFilterDoesNotBlock ==
    /\ (/\ pc = "done"
        /\ ctx.kind \in {"create", "updateAttributes"}
        /\ ~io.emitRejected
        /\ OnlyBadOrTrue(filters, local.methodName, ctx.instance, ctx))
       => (Len(sent) = 1 /\ ~hk.threw /\ ~hk.err)
    /\ (/\ pc = "done"
        /\ ctx.kind = "destroyAll"
        /\ io.find = "resolved"
        /\ ~io.emitRejected
        /\ \A i \in affected : OnlyBadOrTrue(filters, "delete", Rec(i, store[i]), ctx))
       => (SentIds = affected /\ ~hk.threw /\ ~hk.err)

\* C8 (as claimed): a single saved record, none of whose filters throws, is
\* vetoed if and only if some callable filter returns false for it.
C8_VetoIffSomeFilterReturnsFalse ==
    (/\ pc = "done"
     /\ ctx.kind \in {"create", "updateAttributes"}
     /\ \A k \in 1..Len(filters) :
            \/ filters[k] = "notfn"
            \/ FilterCall(filters[k], ModelName, local.methodName, ctx.instance, ctx) # "throw")
    => (Len(sent) = 0
        <=> \E k \in 1..Len(filters) :
                /\ filters[k] # "notfn"
                /\ FilterCall(filters[k], ModelName, local.methodName,
                              ctx.instance, ctx) = "false")

\* C10 (as claimed): when the re-query or a publish of the operation failed,
\* the observer still continues the hook chain without an error.
C10_RelayFailureNeverFailsWrite ==
    (pc = "done" /\ (io.find = "rejected" \/ io.emitRejected))
    => (~hk.err /\ hk.promise # "rejected")

\* A callback invocation has run to its end.
Handled(h) == handlers[h].step \in {"resolved", "rejected"}

\* C2 (as claimed): in the example application, once a Customer created
\* outside any request has been published, delivered (once, in a flow that
\* has a context with no actor set) and handled, eventFn has been invoked and
\* exactly one Order carries the customer's id.
C2_CustomerCreatesOneOrder ==
    (/\ ctx.kind = "create"
     /\ accessToken = Null
     /\ pc = "done"
     /\ hk.promise = "resolved"
     /\ wire = {}
     /\ Handled("h1")
     /\ handlers["h1"].cx # NoContext
     /\ handlers["h1"].d = WireEncode(sent[1].d))
    => /\ handlers["h1"].args # <<>>
       /\ orders[ctx.instance.id] = 1

\* C6 (as claimed): the actor-context variable read inside eventFn is the
\* envelope's userId, and once the handling of a message for which eventFn
\* was invoked has ended, by success or by failure of eventFn, the variable
\* of its context is cleared (no other invocation being under way).
C6_ActorSetThenCleared ==
    \A h \in Handlers :
        /\ handlers[h].args # <<>> => handlers[h].seen = Prop(handlers[h].d, "userId")
        /\ (/\ Handled(h)
            /\ handlers[h].args # <<>>
            /\ \A g \in Handlers \ {h} : handlers[g].step = "idle")
           => ~Truthy(ctxVar[handlers[h].cx])

\* The properties of a published envelope in the order of eventFn's
\* parameters.
PublishedArgs(d) ==
    <<d.modelName, d.methodName, d.modelId, d.data, ObjProp(d, "updateData"),
      d.userId, ObjProp(d, "dataBeforeUpdate")>>

\* C9 (as claimed): every envelope the server published for the model, once
\* delivered to the subscriber (in a flow that has a context) and handled, had
\* eventFn invoked with its modelName, methodName, modelId, data, updateData,
\* userId and dataBeforeUpdate, in that order.
C9_RoundTrip ==
    \A k \in 1..Len(sent) :
        (/\ Handled("h1")
         /\ handlers["h1"].cx # NoContext
         /\ handlers["h1"].d = WireEncode(sent[k].d))
        => handlers["h1"].args = PublishedArgs(sent[k].d)


\* The exported function was just called (the step is a call of it).
Called == calls' = calls + 1

\* C11: a call that names a registered serviceName and carries no type
\* returns the registered instance and changes nothing: the instance (its
\* type, env, filters and transport handle), the observers registered on the
\* models and the subscription chains all stay as they were.
C11_LookupChangesNothing ==
    [][(/\ Called
        /\ ~last'.typed
        /\ last'.name \in ServiceNames
        /\ pubsubList[last'.name] # NoInstance)
       => /\ last'.result = "returned"
          /\ last'.ref = pubsubList[last'.name].ref
          /\ pubsubList' = pubsubList
          /\ observers' = observers
          /\ chains' = chains
          /\ subs' = subs]_vars

\* A lookup has just returned the server instance the first call configured.
C11_Witness ==
    /\ calls = 2
    /\ ~last.typed
    /\ last.result = "returned"
    /\ last.name \in ServiceNames
    /\ pubsubList[last.name].ref = 1
    /\ pubsubList[last.name].type = "server"
    /\ pubsubList[last.name].pubsub = "p1"
    /\ observers[1] = 1

\* C12 (as claimed): configuring a serviceName again with the options of the
\* call before it, which returned normally, registers nothing more: the
\* observers on the broadcast model are those of the first configuration, so
\* that a create is still published once.
C12_RepeatedConfigurationIdempotent ==
    [][(/\ Called
        /\ last.typed
        /\ last.result = "returned"
        /\ ~last.error
        /\ last'.opts = last.opts
        /\ last'.result = "returned")
       => observers' = observers]_vars

\* C13 (as claimed): no subscribe request is issued through an instance whose
\* type is server, and no observer is registered through an instance whose
\* type is client.
C13_RoleNeverCrosses ==
    \A n \in ServiceNames :
        pubsubList[n] # NoInstance
        => /\ pubsubList[n].type = "server"
              => \A c \in 1..MaxCalls :
                    chains[c].self = pubsubList[n].ref => chains[c].issued = 0
           /\ pubsubList[n].type = "client" => observers[pubsubList[n].ref] = 0

\* C14 (as claimed): a call that meets a configuration error either throws
\* or has its setup promise rejected, registers no observer, issues no
\* subscribe request, calls no done callback, and does not leave under its
\* serviceName an instance whose type became the requested one.
C14_ConfigurationErrorsFatal ==
    [][(Called /\ last'.error)
       => /\ last'.result = "threw" \/ chains'[calls'].state = "failed"
          /\ observers' = observers
          /\ \A c \in 1..MaxCalls :
                /\ chains'[c].issued = chains[c].issued
                /\ chains'[c].doneCalls = chains[c].doneCalls
          /\ \A n \in ServiceNames :
                (/\ n = last'.name
                 /\ pubsubList'[n] # NoInstance
                 /\ pubsubList'[n].type = last'.opts.type)
                => /\ pubsubList[n] # NoInstance
                   /\ pubsubList[n].type = last'.opts.type]_vars

\* C15: in every subscription chain the subscribe request for a model is
\* issued only after the requests for all models before it completed; after
\* a failure nothing more is issued and done is not called; done is called at
\* most once, and only when every model's subscription is established.
C15_SubscribesInOrder ==
    \A c \in 1..MaxCalls :
        LET ch == chains[c]
        IN  /\ ch.issued <= ch.k + 1
            /\ ch.issued <= Len(ch.models)
            /\ ch.state = "failed" => ch.doneCalls = 0
            /\ ch.doneCalls <= 1
            /\ ch.doneCalls = 1 => ch.k = Len(ch.models) /\ ch.state = "done"

\* The subscribe for the second of two models has failed after the first one
\* was established.
C15_Witness ==
    \E c \in 1..MaxCalls :
        /\ Len(chains[c].models) = 2
        /\ chains[c].state = "failed"
        /\ chains[c].k = 1
        /\ chains[c].issued = 2
        /\ chains[c].done


\* C16 (as claimed): the handler subscribed for the model invokes eventFn
\* only for envelopes that name this model and carry a modelId; any other
\* envelope is dropped before eventFn.
C16_ForeignEnvelopeDiscarded ==
    \A h \in Handlers :
        handlers[h].args # <<>>
        => /\ Prop(handlers[h].d, "modelName") = ModelName
           /\ Truthy(Prop(handlers[h].d, "modelId"))

\* C17 (as claimed): an error or an eventFn failure of one message leaves
\* the handling of the others as it would have been.  In particular a message
\* that carries a userId, is delivered in a flow that has a context, and
\* reaches setPubsubUserId while no other message is being handled, is not
\* rejected there, whatever became of the messages handled before it.
C17_FailureAffectsOnlyItsMessage ==
    [][\A h \in Handlers :
          (/\ handlers[h].step = "set"
           /\ Truthy(Prop(handlers[h].d, "userId"))
           /\ handlers[h].cx # NoContext
           /\ \A g \in Handlers \ {h} :
                 handlers[g].step \in {"idle", "resolved", "rejected"})
          => handlers'[h].step # "rejected"]_vars


\* C18 (as claimed): once the query of a deletion has resolved, the
\* transport has been handed exactly one envelope per matched record that
\* the filter chain accepts, with methodName "delete", the record's id and
\* the record as it is stored (nothing is removed yet), and the hook chain is
\* continued only when every publish has settled.
C18_DeleteOnePerMatched ==
    (/\ ctx.kind = "destroyAll"
     /\ pc \in {"emit", "done"}
     /\ io.find = "resolved")
    => LET accepted == {i \in affected :
                          shouldPublish(filters, ModelName, "delete",
                                        Rec(i, store[i]), ctx) = "true"}
       IN  /\ SentIds = accepted
           /\ Len(sent) = Cardinality(accepted)
           /\ \A k \in 1..Len(sent) :
                 /\ sent[k].topicName = ModelName
                 /\ sent[k].d = DeleteEnvelope(ModelName, "delete",
                                               Rec(sent[k].d.modelId,
                                                   store[sent[k].d.modelId]), local)
           /\ (hk.next > 0 /\ ~hk.err) => pend = {}


\* C20 (as claimed): every observer invocation signals the hook chain exactly
\* once: it has called next once and returned no promise, or it has returned
\* a promise (which settles) and never calls next; it never leaves the
\* observer by an exception.  The before-save observer has signalled when the
\* write starts, the other two when the operation is done.
C20_SignalsExactlyOnce ==
    /\ hk.next <= 1
    /\ ~(hk.next = 1 /\ hk.promise # "none")
    /\ pc = "write" => (hk.next = 1 /\ hk.promise = "none")
    /\ pc = "done"
       => /\ ~hk.threw
          /\ \/ hk.next = 1 /\ hk.promise = "none"
             \/ hk.next = 0 /\ hk.promise \in {"resolved", "rejected"}


\* C19: every envelope of an operation in flight carries the user of the
\* request context its observer ran in (null without an access token), and,
\* for a save, the updateData of its own hook context, also while another
\* user's operation is in flight and their queries and publishes interleave.
C19_EnvelopesCarryOwnUser ==
    \A o \in Ops :
        \A k \in 1..Len(ops[o].sent) :
            LET d == ops[o].sent[k].d
            IN  /\ d.userId = (IF Truthy(ops[o].token) THEN ops[o].token ELSE Null)
                /\ ops[o].ctx.kind # "destroyAll"
                   => d.updateData = ops[o].ctx.hookState.updateData

\* Two bulk updates by different users with different patches, started
\* before either one's query resolved, have both published.
C19_Witness ==
    /\ ops[1].pc = "emit" /\ ops[2].pc = "emit"
    /\ ops[1].ctx.kind = "updateAll" /\ ops[2].ctx.kind = "updateAll"
    /\ ops[1].token = "u1" /\ ops[2].token = "u2"
    /\ ops[1].ctx.data # ops[2].ctx.data
    /\ ops[1].sent # <<>> /\ ops[2].sent # <<>>

=============================================================================
